---- MODULE Spec2Model ----
(***************************************************************************)
(* Model of the account state-transition engine `Accounts`                 *)
(* (primitives/account/src/accounts.rs): commit, revert, get_root_with and *)
(* the phase processors they are built from, run against an accounts trie  *)
(* that is read and written through a single write transaction; and of    *)
(* the peer channel (src/network/peer_channel.rs) that forwards the events *)
(* of a connection's stream to its own notifier.                           *)
(***************************************************************************)
EXTENDS Integers, Sequences, FiniteSets, TLC

VARIABLES db, txn, block, persisted, last

\* The peer channel: the stream process_stream reads and how far it got, the
\* events it notified, the listeners on the connection's notifier, the channel's
\* closed flag, the events forwarded to the channel's notifier, the threads
\* inside the listener, the Close events the connection emitted itself, the
\* live handles, whether a handle was dropped, and what closed() last returned.
VARIABLES stream, pos, pc, stream_events, listeners, closed, channel_events,
          readers, emitted, handles, dropped, seen

accounts_vars == <<db, txn, block, persisted, last>>

peer_vars == <<stream, pos, pc, stream_events, listeners, closed, channel_events,
               readers, emitted, handles, dropped, seen>>

vars == <<db, txn, block, persisted, last, stream, pos, pc, stream_events, listeners,
          closed, channel_events, readers, emitted, handles, dropped, seen>>

(***************************************************************************)
(* Bounds of the model.                                                    *)
(***************************************************************************)
NumAddr == 2
MaxTxs == 2
MaxInherents == 2
MaxValue == 1
MaxBalance == 2
MaxHeight == 1
MaxOps == 3

\* index as u16: a receipt index is the position modulo 2^16.
U16 == 65536

Addr == 1..NumAddr
AccountTypes == {"Basic", "Vesting"}
Heights == 1..MaxHeight
Timestamps == {0}

(***************************************************************************)
(* Accounts.  Every variant carries a balance; `info` stands for the       *)
(* variant-specific state of a contract account (0 for a basic account).   *)
(***************************************************************************)
Account(type, balance, info) == [type |-> type, balance |-> balance, info |-> info]

INITIAL == Account("Basic", 0, 0)

new_basic(balance) == Account("Basic", balance, 0)

\* Result<T, AccountError> of an account operation.
None == <<>>
Some(data) == <<data>>

\* Account::new_contract(type, balance, transaction, block_height, timestamp)
new_contract(type, balance, tx, h, ts) ==
    IF type = "Basic"
    THEN [ok |-> FALSE, err |-> "InvalidForRecipient", account |-> INITIAL]
    ELSE [ok |-> TRUE, err |-> "", account |-> Account(type, balance, h)]

(***************************************************************************)
(* The trie: a mapping from address to account, read and written inside a  *)
(* transaction.  A key that was never written reads as the initial account.*)
(***************************************************************************)
EmptyTrie == [a \in Addr |-> INITIAL]

tree_get(t, key) == t[key]

put_batch(t, key, account) == [t EXCEPT ![key] = account]

root_hash(t) == {<<a, t[a]>> : a \in Addr}

(***************************************************************************)
(* Account operations.  The commit operations are static: they are handed  *)
(* the tree and the transaction and act on the trie directly.  The revert  *)
(* operations are methods of the account copy they are called on.          *)
(***************************************************************************)
Touched(acc, balance, h) ==
    IF acc.type = "Basic" THEN Account("Basic", balance, 0)
    ELSE Account(acc.type, balance, h)

ReceiptOf(acc) == IF acc.type = "Basic" THEN None ELSE Some(acc.info)

StaticOk(t, key, account, receipt) ==
    [ok |-> TRUE, err |-> "", trie |-> put_batch(t, key, account), receipt |-> receipt]

StaticErr(t, e) == [ok |-> FALSE, err |-> e, trie |-> t, receipt |-> None]

commit_outgoing_transaction(t, tx, h, ts) ==
    LET acc == tree_get(t, tx.sender) IN
    IF acc.balance < tx.value THEN StaticErr(t, "InsufficientFunds")
    ELSE StaticOk(t, tx.sender, Touched(acc, acc.balance - tx.value, h), ReceiptOf(acc))

commit_incoming_transaction(t, tx, h, ts) ==
    LET acc == tree_get(t, tx.recipient) IN
    IF acc.balance + tx.value > MaxBalance THEN StaticErr(t, "Overflow")
    ELSE StaticOk(t, tx.recipient, Touched(acc, acc.balance + tx.value, h), ReceiptOf(acc))

commit_inherent(t, inh, h, ts) ==
    LET acc == tree_get(t, inh.target) IN
    IF acc.balance + inh.value > MaxBalance THEN StaticErr(t, "Overflow")
    ELSE StaticOk(t, inh.target, Touched(acc, acc.balance + inh.value, h), ReceiptOf(acc))

MethodOk(account) == [ok |-> TRUE, err |-> "", account |-> account]

MethodErr(account, e) == [ok |-> FALSE, err |-> e, account |-> account]

\* The state a revert restores: the balance given, the info of the receipt.
Restored(acc, balance, receipt) ==
    IF acc.type = "Basic" THEN Account("Basic", balance, 0)
    ELSE Account(acc.type, balance, receipt[1])

ReceiptFits(acc, receipt) ==
    IF acc.type = "Basic" THEN receipt = None ELSE receipt # None

revert_outgoing_transaction(acc, tx, h, ts, receipt) ==
    IF ~ReceiptFits(acc, receipt) THEN MethodErr(acc, "InvalidReceipt")
    ELSE IF acc.balance + tx.value > MaxBalance THEN MethodErr(acc, "Overflow")
    ELSE MethodOk(Restored(acc, acc.balance + tx.value, receipt))

revert_incoming_transaction(acc, tx, h, ts, receipt) ==
    IF ~ReceiptFits(acc, receipt) THEN MethodErr(acc, "InvalidReceipt")
    ELSE IF acc.balance < tx.value THEN MethodErr(acc, "InsufficientFunds")
    ELSE MethodOk(Restored(acc, acc.balance - tx.value, receipt))

revert_inherent(acc, inh, h, ts, receipt) ==
    IF ~ReceiptFits(acc, receipt) THEN MethodErr(acc, "InvalidReceipt")
    ELSE IF acc.balance < inh.value THEN MethodErr(acc, "InsufficientFunds")
    ELSE MethodOk(Restored(acc, acc.balance - inh.value, receipt))

(***************************************************************************)
(* Receipts and the per-phase receipt maps (HashMap<u16, &Vec<u8>>).       *)
(***************************************************************************)
ReceiptTransaction(index, sender, data) ==
    [kind |-> "Transaction", index |-> index, flag |-> sender, data |-> data]

ReceiptInherent(index, pre_transactions, data) ==
    [kind |-> "Inherent", index |-> index, flag |-> pre_transactions, data |-> data]

EmptyMap == <<>>

MapInsert(m, k, v) == [x \in DOMAIN m \cup {k} |-> IF x = k THEN v ELSE m[x]]

\* HashMap::remove: the value under the key, if any, and the map without it.
MapRemove(m, k) ==
    [value |-> IF k \in DOMAIN m THEN Some(m[k]) ELSE None,
     map |-> [x \in DOMAIN m \ {k} |-> m[x]]]

\* Mutant: the index is truncated to 8 bits.
AsU16_Byte(index) == index % 256

AsU16(index) == index % U16

RECURSIVE prepare_loop(_, _, _)
prepare_loop(rs, k, maps) ==
    IF k > Len(rs) THEN maps
    ELSE LET r == rs[k]
             which == IF r.kind = "Transaction"
                      THEN (IF r.flag THEN "sender" ELSE "recipient")
                      ELSE (IF r.flag THEN "pre_tx_inherent" ELSE "post_tx_inherent")
         IN prepare_loop(rs, k + 1,
                [maps EXCEPT ![which] = MapInsert(maps[which], r.index, r.data)])

RECURSIVE prepare_loop_OneMap(_, _, _)
prepare_loop_OneMap(rs, k, maps) ==
    IF k > Len(rs) THEN maps
    ELSE LET r == rs[k]
             which == IF r.kind = "Transaction" THEN "sender"
                      ELSE (IF r.flag THEN "pre_tx_inherent" ELSE "post_tx_inherent")
         IN prepare_loop_OneMap(rs, k + 1,
                [maps EXCEPT ![which] = MapInsert(maps[which], r.index, r.data)])

\* Mutant: the receipts of both roles of the transactions share one map.
prepare_receipts_OneMap(rs) ==
    LET maps == prepare_loop_OneMap(rs, 1, [sender |-> EmptyMap, recipient |-> EmptyMap,
                    pre_tx_inherent |-> EmptyMap, post_tx_inherent |-> EmptyMap])
    IN [maps EXCEPT !.recipient = maps.sender]

prepare_receipts(rs) ==
    prepare_loop(rs, 1, [sender |-> EmptyMap, recipient |-> EmptyMap,
                         pre_tx_inherent |-> EmptyMap, post_tx_inherent |-> EmptyMap])

(***************************************************************************)
(* The closures commit and revert hand to the phase processors.  Each is   *)
(* given the trie of the write transaction, the account copy the processor *)
(* read, the operation, and the receipt; it yields the trie and the copy   *)
(* as the closure leaves them, and the receipt it returns.                 *)
(***************************************************************************)
OpResult(ok, err, t, account, receipt) ==
    [ok |-> ok, err |-> err, trie |-> t, account |-> account, receipt |-> receipt]

\* |account, ..| Account::commit_*(&self.tree, txn, ..): the copy is not used.
FromStatic(r, account) == OpResult(r.ok, r.err, r.trie, account, r.receipt)

\* account.revert_*(..).map(|_| None): the copy is changed, the trie is not.
FromMethod(r, t) == OpResult(r.ok, r.err, t, r.account, None)

account_op(op, t, account, x, h, ts, receipt) ==
    CASE op = "commit_inherent" -> FromStatic(commit_inherent(t, x, h, ts), account)
      [] op = "commit_outgoing_transaction" ->
            FromStatic(commit_outgoing_transaction(t, x, h, ts), account)
      [] op = "commit_incoming_transaction" ->
            FromStatic(commit_incoming_transaction(t, x, h, ts), account)
      [] op = "revert_inherent" -> FromMethod(revert_inherent(account, x, h, ts, receipt), t)
      [] op = "revert_outgoing_transaction" ->
            FromMethod(revert_outgoing_transaction(account, x, h, ts, receipt), t)
      [] op = "revert_incoming_transaction" ->
            FromMethod(revert_incoming_transaction(account, x, h, ts, receipt), t)

(***************************************************************************)
(* process_transaction and process_inherent: read a copy of the account,   *)
(* check its type, apply the operation, write the copy back.  The result   *)
(* records what the call did: the copy it read, whether the operation was  *)
(* invoked, and the put_batch it made.                                     *)
(***************************************************************************)
NoType == "None"

Handled(ok, err, t, receipt, address, expected, stored, invoked, put, written, given, result) ==
    [ok |-> ok, err |-> err, trie |-> t, receipt |-> receipt, address |-> address,
     expected |-> expected, stored |-> stored, invoked |-> invoked, put |-> put,
     written |-> written, given |-> given, result |-> result]

\* The account as the operation left it: the one it stored in the trie when it
\* acted on the trie, the copy it was handed otherwise.
Outcome(r, t, address) ==
    IF tree_get(r.trie, address) # tree_get(t, address) THEN tree_get(r.trie, address)
    ELSE r.account

\* The write-back at the end of process_transaction and process_inherent.
WriteBack(t, address, account) == put_batch(t, address, account)

\* let receipt = account_op(&mut account, ..)?; put_batch(txn, address, account);
\* Ok(receipt): `r` is what account_op returned and left of the trie and the copy.
write_back(r, t, address, account_type, account, receipt) ==
    IF ~r.ok
    THEN Handled(FALSE, r.err, r.trie, None, address, account_type, account,
                 TRUE, FALSE, account, receipt, account)
    ELSE Handled(TRUE, "", WriteBack(r.trie, address, r.account), r.receipt,
                 address, account_type, account, TRUE, TRUE, r.account, receipt,
                 Outcome(r, t, address))

check_late(r, t, address, account_type, account, receipt) ==
    IF r.ok /\ account_type # NoType /\ account.type # account_type
    THEN Handled(FALSE, "TypeMismatch", r.trie, None, address, account_type, account,
                 TRUE, FALSE, account, receipt, account)
    ELSE write_back(r, t, address, account_type, account, receipt)

\* Mutant: the type is checked only after the operation was applied.
process_transaction_CheckLate(t, address, account_type, tx, h, ts, receipt, op) ==
    check_late(account_op(op, t, tree_get(t, address), tx, h, ts, receipt),
               t, address, account_type, tree_get(t, address), receipt)

put_first(r, t, address, account_type, account, receipt) ==
    Handled(r.ok, r.err, WriteBack(r.trie, address, r.account), r.receipt,
            address, account_type, account, TRUE, TRUE, r.account, receipt,
            Outcome(r, t, address))

\* Mutant: the copy is written back before the operation's result is looked at.
process_transaction_PutFirst(t, address, account_type, tx, h, ts, receipt, op) ==
    LET account == tree_get(t, address) IN
    IF account_type # NoType /\ account.type # account_type
    THEN Handled(FALSE, "TypeMismatch", t, None, address, account_type, account,
                 FALSE, FALSE, account, receipt, account)
    ELSE put_first(account_op(op, t, account, tx, h, ts, receipt),
                   t, address, account_type, account, receipt)

process_transaction(t, address, account_type, tx, h, ts, receipt, op) ==
    LET account == tree_get(t, address) IN
    IF account_type # NoType /\ account.type # account_type
    THEN Handled(FALSE, "TypeMismatch", t, None, address, account_type, account,
                 FALSE, FALSE, account, receipt, account)
    ELSE write_back(account_op(op, t, account, tx, h, ts, receipt),
                    t, address, account_type, account, receipt)

process_inherent(t, inh, h, ts, receipt, op) ==
    write_back(account_op(op, t, tree_get(t, inh.target), inh, h, ts, receipt),
               t, inh.target, NoType, tree_get(t, inh.target), receipt)

(***************************************************************************)
(* The phase processors.  Each folds a sequence of operations against the  *)
(* trie and yields the trie, the receipts it collected, the receipts left  *)
(* in its map and the log of the calls it made; the first error ends it.   *)
(***************************************************************************)
LogEntry(step, index, r) ==
    [step |-> step, index |-> index, address |-> r.address, expected |-> r.expected,
     stored |-> r.stored, invoked |-> r.invoked, ok |-> r.ok, err |-> r.err,
     put |-> r.put, written |-> r.written, given |-> r.given, receipt |-> r.receipt,
     result |-> r.result, after |-> tree_get(r.trie, r.address)]

PhaseResult(ok, err, t, new_receipts, left, log) ==
    [ok |-> ok, err |-> err, trie |-> t, receipts |-> new_receipts, left |-> left,
     log |-> log]

\* Mutant: the error of a call is dropped and the caller goes on.
Failed_Ignored(r) == FALSE

\* The `?` after a call: an error leaves the enclosing loop and function.
Failed(r) == ~r.ok

\* Mutant: a receipt the operation returned is not pushed.
Pushed_Dropped(new_receipts, r, receipt) == new_receipts

\* if let Some(data) = ..? { new_receipts.push(receipt) }
Pushed(new_receipts, r, receipt) ==
    IF r.receipt # None THEN Append(new_receipts, receipt) ELSE new_receipts

RECURSIVE senders_loop(_, _, _, _, _, _, _, _, _, _)
RECURSIVE senders_next(_, _, _, _, _, _, _, _, _, _)
senders_next(step, txs, h, ts, op, index, map, new_receipts, log, r) ==
    IF Failed(r)
    THEN PhaseResult(FALSE, r.err, r.trie, <<>>, map, Append(log, LogEntry(step, index, r)))
    ELSE senders_loop(step, txs, h, ts, op, index + 1, r.trie, map,
            Pushed(new_receipts, r, ReceiptTransaction(AsU16(index), TRUE, r.receipt[1])),
            Append(log, LogEntry(step, index, r)))

senders_loop(step, txs, h, ts, op, index, t, map, new_receipts, log) ==
    IF index >= Len(txs) THEN PhaseResult(TRUE, "", t, new_receipts, map, log)
    ELSE senders_next(step, txs, h, ts, op, index, MapRemove(map, AsU16(index)).map,
            new_receipts, log,
            process_transaction(t, txs[index + 1].sender, txs[index + 1].sender_type,
                                txs[index + 1], h, ts,
                                MapRemove(map, AsU16(index)).value, op))

RECURSIVE senders_loop_Unchecked(_, _, _, _, _, _, _, _, _, _)
RECURSIVE senders_next_Unchecked(_, _, _, _, _, _, _, _, _, _)
senders_next_Unchecked(step, txs, h, ts, op, index, map, new_receipts, log, r) ==
    IF Failed(r)
    THEN PhaseResult(FALSE, r.err, r.trie, <<>>, map, Append(log, LogEntry(step, index, r)))
    ELSE senders_loop_Unchecked(step, txs, h, ts, op, index + 1, r.trie, map,
            Pushed(new_receipts, r, ReceiptTransaction(AsU16(index), TRUE, r.receipt[1])),
            Append(log, LogEntry(step, index, r)))

senders_loop_Unchecked(step, txs, h, ts, op, index, t, map, new_receipts, log) ==
    IF index >= Len(txs) THEN PhaseResult(TRUE, "", t, new_receipts, map, log)
    ELSE senders_next_Unchecked(step, txs, h, ts, op, index,
            MapRemove(map, AsU16(index)).map, new_receipts, log,
            process_transaction(t, txs[index + 1].sender, NoType,
                                txs[index + 1], h, ts,
                                MapRemove(map, AsU16(index)).value, op))

\* Mutant: the sender's type is not checked.
process_senders_Unchecked(step, t, txs, h, ts, map, op) ==
    senders_loop_Unchecked(step, txs, h, ts, op, 0, t, map, <<>>, <<>>)

process_senders(step, t, txs, h, ts, map, op) ==
    senders_loop(step, txs, h, ts, op, 0, t, map, <<>>, <<>>)

\* Mutant: the recipient's type is checked for a contract creation too.
recipient_type_Always(transaction) == transaction.recipient_type

\* The type process_recipients checks: none for a contract creation.
recipient_type(transaction) ==
    IF transaction.contract_creation THEN NoType ELSE transaction.recipient_type

RECURSIVE recipients_loop(_, _, _, _, _, _, _, _, _, _)
RECURSIVE recipients_next(_, _, _, _, _, _, _, _, _, _)
recipients_next(step, txs, h, ts, op, index, map, new_receipts, log, r) ==
    IF Failed(r)
    THEN PhaseResult(FALSE, r.err, r.trie, <<>>, map, Append(log, LogEntry(step, index, r)))
    ELSE recipients_loop(step, txs, h, ts, op, index + 1, r.trie, map,
            Pushed(new_receipts, r, ReceiptTransaction(AsU16(index), FALSE, r.receipt[1])),
            Append(log, LogEntry(step, index, r)))

recipients_loop(step, txs, h, ts, op, index, t, map, new_receipts, log) ==
    IF index >= Len(txs) THEN PhaseResult(TRUE, "", t, new_receipts, map, log)
    ELSE recipients_next(step, txs, h, ts, op, index, MapRemove(map, AsU16(index)).map,
            new_receipts, log,
            process_transaction(t, txs[index + 1].recipient, recipient_type(txs[index + 1]),
                                txs[index + 1], h, ts,
                                MapRemove(map, AsU16(index)).value, op))

process_recipients(step, t, txs, h, ts, map, op) ==
    recipients_loop(step, txs, h, ts, op, 0, t, map, <<>>, <<>>)

RECURSIVE inherents_loop(_, _, _, _, _, _, _, _, _, _)
RECURSIVE inherents_next(_, _, _, _, _, _, _, _, _, _)
inherents_next(step, inhs, h, ts, op, index, map, new_receipts, log, r) ==
    IF Failed(r)
    THEN PhaseResult(FALSE, r.err, r.trie, <<>>, map, Append(log, LogEntry(step, index, r)))
    ELSE inherents_loop(step, inhs, h, ts, op, index + 1, r.trie, map,
            Pushed(new_receipts, r,
                   ReceiptInherent(AsU16(index), inhs[index + 1].pre_transactions,
                                   r.receipt[1])),
            Append(log, LogEntry(step, index, r)))

inherents_loop(step, inhs, h, ts, op, index, t, map, new_receipts, log) ==
    IF index >= Len(inhs) THEN PhaseResult(TRUE, "", t, new_receipts, map, log)
    ELSE inherents_next(step, inhs, h, ts, op, index, MapRemove(map, AsU16(index)).map,
            new_receipts, log,
            process_inherent(t, inhs[index + 1], h, ts,
                             MapRemove(map, AsU16(index)).value, op))

\* `inhs` is the filtered subsequence the caller hands over.
process_inherents(step, t, inhs, h, ts, map, op) ==
    inherents_loop(step, inhs, h, ts, op, 0, t, map, <<>>, <<>>)

\* Mutant: the inherents are not filtered by phase.
filter_inherents_All(inhs, pre) == inhs

\* inherents.iter().filter(|i| i.is_pre_transactions() == pre)
RECURSIVE filter_inherents(_, _)
filter_inherents(inhs, pre) ==
    IF inhs = <<>> THEN <<>>
    ELSE (IF Head(inhs).pre_transactions = pre THEN <<Head(inhs)>> ELSE <<>>)
         \o filter_inherents(Tail(inhs), pre)

(***************************************************************************)
(* Contract creation and reversal for the flagged transactions.            *)
(***************************************************************************)
\* Mutant: the contract is built with a balance of zero.
create_contract_ZeroBalance(t, transaction, h, ts) ==
    LET recipient_account == tree_get(t, transaction.recipient)
        n == new_contract(transaction.recipient_type, 0, transaction, h, ts)
    IN IF ~n.ok
       THEN Handled(FALSE, n.err, t, None, transaction.recipient, NoType,
                    recipient_account, TRUE, FALSE, recipient_account, None,
                    recipient_account)
       ELSE Handled(TRUE, "", put_batch(t, transaction.recipient, n.account), None,
                    transaction.recipient, NoType, recipient_account, TRUE, TRUE,
                    n.account, None, n.account)

create_contract(t, transaction, h, ts) ==
    LET recipient_account == tree_get(t, transaction.recipient)
        n == new_contract(transaction.recipient_type, recipient_account.balance,
                          transaction, h, ts)
    IN IF ~n.ok
       THEN Handled(FALSE, n.err, t, None, transaction.recipient, NoType,
                    recipient_account, TRUE, FALSE, recipient_account, None,
                    recipient_account)
       ELSE Handled(TRUE, "", put_batch(t, transaction.recipient, n.account), None,
                    transaction.recipient, NoType, recipient_account, TRUE, TRUE,
                    n.account, None, n.account)

\* Mutant: the basic account is built with a balance of zero.
revert_contract_ZeroBalance(t, transaction, h, ts) ==
    LET recipient_account == tree_get(t, transaction.recipient) IN
    IF recipient_account.type # transaction.recipient_type
    THEN Handled(FALSE, "TypeMismatch", t, None, transaction.recipient,
                 transaction.recipient_type, recipient_account, FALSE, FALSE,
                 recipient_account, None, recipient_account)
    ELSE Handled(TRUE, "", put_batch(t, transaction.recipient, new_basic(0)), None,
                 transaction.recipient, transaction.recipient_type, recipient_account,
                 TRUE, TRUE, new_basic(0), None, new_basic(0))

\* Mutant: the stored type is not compared with transaction.recipient_type.
revert_contract_Unchecked(t, transaction, h, ts) ==
    LET recipient_account == tree_get(t, transaction.recipient) IN
    Handled(TRUE, "", put_batch(t, transaction.recipient,
                                new_basic(recipient_account.balance)), None,
            transaction.recipient, transaction.recipient_type, recipient_account,
            TRUE, TRUE, new_basic(recipient_account.balance), None,
            new_basic(recipient_account.balance))

revert_contract(t, transaction, h, ts) ==
    LET recipient_account == tree_get(t, transaction.recipient) IN
    IF recipient_account.type # transaction.recipient_type
    THEN Handled(FALSE, "TypeMismatch", t, None, transaction.recipient,
                 transaction.recipient_type, recipient_account, FALSE, FALSE,
                 recipient_account, None, recipient_account)
    ELSE Handled(TRUE, "", put_batch(t, transaction.recipient,
                                     new_basic(recipient_account.balance)), None,
                 transaction.recipient, transaction.recipient_type, recipient_account,
                 TRUE, TRUE, new_basic(recipient_account.balance), None,
                 new_basic(recipient_account.balance))

RECURSIVE contracts_loop(_, _, _, _, _, _, _, _)
RECURSIVE contracts_next(_, _, _, _, _, _, _, _)
contracts_next(step, create, txs, h, ts, index, log, r) ==
    IF Failed(r)
    THEN PhaseResult(FALSE, r.err, r.trie, <<>>, EmptyMap,
                     Append(log, LogEntry(step, index, r)))
    ELSE contracts_loop(step, create, txs, h, ts, index + 1, r.trie,
                        Append(log, LogEntry(step, index, r)))

contracts_loop(step, create, txs, h, ts, index, t, log) ==
    IF index >= Len(txs) THEN PhaseResult(TRUE, "", t, <<>>, EmptyMap, log)
    ELSE IF ~txs[index + 1].contract_creation
    THEN contracts_loop(step, create, txs, h, ts, index + 1, t, log)
    ELSE contracts_next(step, create, txs, h, ts, index, log,
            IF create THEN create_contract(t, txs[index + 1], h, ts)
            ELSE revert_contract(t, txs[index + 1], h, ts))

create_contracts(step, t, txs, h, ts) == contracts_loop(step, TRUE, txs, h, ts, 0, t, <<>>)

revert_contracts(step, t, txs, h, ts) == contracts_loop(step, FALSE, txs, h, ts, 0, t, <<>>)

(***************************************************************************)
(* commit and revert: the five steps, each run for the whole block before  *)
(* the next starts.                                                        *)
(***************************************************************************)
\* Mutant: the recipients are credited before the senders are debited.
CommitOrder_RecipientsFirst ==
    <<"pre_inherents", "recipients", "senders", "contracts", "post_inherents">>

\* Mutant: the contracts are created before the recipients are credited.
CommitOrder_ContractsEarly ==
    <<"pre_inherents", "senders", "contracts", "recipients", "post_inherents">>

CommitOrder == <<"pre_inherents", "senders", "recipients", "contracts", "post_inherents">>

\* Mutant: the recipients are reverted before the contracts are reversed.
RevertOrder_ContractsLate ==
    <<"post_inherents", "recipients", "contracts", "senders", "pre_inherents">>

RevertOrder == <<"post_inherents", "contracts", "recipients", "senders", "pre_inherents">>

CallResult(ok, err, t, rs, log) ==
    [ok |-> ok, err |-> err, trie |-> t, receipts |-> rs, log |-> log]

commit_step(step, t, txs, inhs, h, ts) ==
    CASE step \in {"pre_inherents", "post_inherents"} ->
            process_inherents(step, t, filter_inherents(inhs, step = "pre_inherents"),
                              h, ts, EmptyMap, "commit_inherent")
      [] step = "senders" ->
            process_senders(step, t, txs, h, ts, EmptyMap, "commit_outgoing_transaction")
      [] step = "recipients" ->
            process_recipients(step, t, txs, h, ts, EmptyMap, "commit_incoming_transaction")
      [] step = "contracts" -> create_contracts(step, t, txs, h, ts)

RECURSIVE commit_run(_, _, _, _, _, _, _)
RECURSIVE commit_next(_, _, _, _, _, _, _, _)
commit_next(steps, k, txs, inhs, h, ts, acc, r) ==
    IF Failed(r) THEN CallResult(FALSE, r.err, r.trie, <<>>, acc.log \o r.log)
    ELSE commit_run(steps, k + 1, txs, inhs, h, ts,
             CallResult(TRUE, "", r.trie, acc.receipts \o r.receipts, acc.log \o r.log))

commit_run(steps, k, txs, inhs, h, ts, acc) ==
    IF k > Len(steps) THEN acc
    ELSE commit_next(steps, k, txs, inhs, h, ts, acc,
                     commit_step(steps[k], acc.trie, txs, inhs, h, ts))

\* Mutant: the receipts of the previous call are still in the vector.
NewReceipts_Kept == last.receipts

\* let mut receipts = Vec::new();
NewReceipts == <<>>

commit(t, txs, inhs, h, ts) ==
    commit_run(CommitOrder, 1, txs, inhs, h, ts,
               CallResult(TRUE, "", t, NewReceipts, <<>>))

\* Mutant: the sender and the recipient phase are handed each other's receipts.
step_receipts_Swapped(step, maps) ==
    CASE step = "post_inherents" -> maps.post_tx_inherent
      [] step = "recipients" -> maps.sender
      [] step = "senders" -> maps.recipient
      [] step = "pre_inherents" -> maps.pre_tx_inherent
      [] step = "contracts" -> EmptyMap

\* The receipt map revert hands to a step.
step_receipts(step, maps) ==
    CASE step = "post_inherents" -> maps.post_tx_inherent
      [] step = "recipients" -> maps.recipient
      [] step = "senders" -> maps.sender
      [] step = "pre_inherents" -> maps.pre_tx_inherent
      [] step = "contracts" -> EmptyMap

revert_step(step, t, txs, inhs, h, ts, maps) ==
    CASE step \in {"pre_inherents", "post_inherents"} ->
            process_inherents(step, t, filter_inherents(inhs, step = "pre_inherents"),
                              h, ts, step_receipts(step, maps), "revert_inherent")
      [] step = "contracts" -> revert_contracts(step, t, txs, h, ts)
      [] step = "recipients" ->
            process_recipients(step, t, txs, h, ts, step_receipts(step, maps),
                               "revert_incoming_transaction")
      [] step = "senders" ->
            process_senders(step, t, txs, h, ts, step_receipts(step, maps),
                            "revert_outgoing_transaction")

RECURSIVE revert_run(_, _, _, _, _, _, _, _)
RECURSIVE revert_next(_, _, _, _, _, _, _, _, _)
revert_next(steps, k, txs, inhs, h, ts, maps, acc, r) ==
    IF Failed(r) THEN CallResult(FALSE, r.err, r.trie, <<>>, acc.log \o r.log)
    ELSE revert_run(steps, k + 1, txs, inhs, h, ts, maps,
             CallResult(TRUE, "", r.trie, <<>>, acc.log \o r.log))

revert_run(steps, k, txs, inhs, h, ts, maps, acc) ==
    IF k > Len(steps) THEN acc
    ELSE revert_next(steps, k, txs, inhs, h, ts, maps, acc,
                     revert_step(steps[k], acc.trie, txs, inhs, h, ts, maps))

revert(t, txs, inhs, h, ts, rs) ==
    revert_run(RevertOrder, 1, txs, inhs, h, ts, prepare_receipts(rs),
               CallResult(TRUE, "", t, <<>>, <<>>))

(***************************************************************************)
(* The storage environment: one durable trie and at most one write         *)
(* transaction, whose writes reach the durable trie only when it commits.  *)
(***************************************************************************)
NoTxn == [open |-> FALSE, view |-> EmptyTrie]

WriteTransaction_new(durable) == [open |-> TRUE, view |-> durable]

\* The durable trie after the write transaction with this view is aborted.
txn_abort(durable, view) == durable

\* The durable trie after the write transaction with this view is committed.
txn_commit(durable, view) == view

\* The trie a read sees: the transaction's view, or a fresh read transaction's.
get(durable, key, txn_option) ==
    IF txn_option = None THEN tree_get(durable, key) ELSE tree_get(txn_option[1], key)

get_root(durable, txn_option) ==
    IF txn_option = None THEN root_hash(durable) ELSE root_hash(txn_option[1])

RECURSIVE init_loop(_, _)
init_loop(t, genesis_accounts) ==
    IF genesis_accounts = <<>> THEN t
    ELSE init_loop(put_batch(t, Head(genesis_accounts)[1], Head(genesis_accounts)[2]),
                   Tail(genesis_accounts))

init(t, genesis_accounts) == init_loop(t, genesis_accounts)

\* The durable trie after the write transaction with this view went out of
\* scope without a commit: it is rolled back.
txn_drop(durable, view) == durable

\* `held` is the write transaction as the call leaves it.
PreviewResult(ok, err, hash, durable, held, log) ==
    [ok |-> ok, err |-> err, hash |-> hash, durable |-> durable, txn |-> held,
     log |-> log]

\* What follows self.commit(&mut txn, ..) in get_root_with: `r` is its result.
\* The `?` returns the error and drops txn; otherwise txn is aborted.
preview(durable, r) ==
    IF Failed(r)
    THEN PreviewResult(FALSE, r.err, {}, txn_drop(durable, r.trie), NoTxn, r.log)
    ELSE PreviewResult(TRUE, "", get_root(durable, Some(r.trie)),
                       txn_abort(durable, r.trie), NoTxn, r.log)

preview_Persisting(durable, r) ==
    IF Failed(r)
    THEN PreviewResult(FALSE, r.err, {}, txn_drop(durable, r.trie), NoTxn, r.log)
    ELSE PreviewResult(TRUE, "", get_root(durable, Some(r.trie)),
                       txn_commit(durable, r.trie), NoTxn, r.log)

preview_Leaking(durable, r) ==
    IF Failed(r)
    THEN PreviewResult(FALSE, r.err, {}, durable, [open |-> TRUE, view |-> r.trie], r.log)
    ELSE PreviewResult(TRUE, "", get_root(durable, Some(r.trie)),
                       txn_abort(durable, r.trie), NoTxn, r.log)

\* Mutant: the write transaction of the preview is committed, not aborted.
get_root_with_Persisting(durable, txs, inhs, h, ts) ==
    preview_Persisting(durable, commit(WriteTransaction_new(durable).view, txs, inhs, h, ts))

\* Mutant: on the error path the write transaction stays open with its writes.
get_root_with_Leaking(durable, txs, inhs, h, ts) ==
    preview_Leaking(durable, commit(WriteTransaction_new(durable).view, txs, inhs, h, ts))

get_root_with(durable, txs, inhs, h, ts) ==
    preview(durable, commit(WriteTransaction_new(durable).view, txs, inhs, h, ts))

(***************************************************************************)
(* The peer channel.  A connection owns a notifier of PeerStreamEvents;    *)
(* PeerChannel::new registers one listener on it, which forwards every     *)
(* event to the channel's own notifier, a Close event only while the       *)
(* channel's closed flag is not set.  process_stream feeds the connection's*)
(* notifier from the message stream.                                       *)
(***************************************************************************)
MaxStream == 3
NumClosers == 2
MaxHandles == 2

Messages == {"ping", "pong"}
StreamFailure == "error"
StreamItems == Messages \cup {StreamFailure}

\* The thread that polls process_stream, and the threads on which the
\* connection emits a Close event of its own.
StreamThread == 0
Closers == 1..NumClosers
Threads == {StreamThread} \cup Closers

NoArg == "-"

PeerStreamEvent(kind, arg) == [of |-> "PeerStreamEvent", kind |-> kind, arg |-> arg]

PeerChannelEvent(kind, arg) == [of |-> "PeerChannelEvent", kind |-> kind, arg |-> arg]

\* impl From<&PeerStreamEvent> for PeerChannelEvent
PeerChannelEvent_from(e) ==
    CASE e.kind = "Message" -> PeerChannelEvent("Message", e.arg)
      [] e.kind = "Close" -> PeerChannelEvent("Close", e.arg)
      [] e.kind = "Error" -> PeerChannelEvent("Error", NoArg)

\* Notifier: the set of registered listener handles.  notify calls every
\* registered listener with the event, under the read lock of the notifier;
\* deregister, under its write lock, removes the listener of the handle.
Notifier_new == {}

\* The handle Notifier::register returns for the channel's listener.
ListenerHandle == 1

register(ls, handle) == ls \cup {handle}

deregister(ls, handle) == ls \ {handle}

\* Mutant: the flag is read and left as it is.
swap_LoadOnly(flag, value) == [old |-> flag, new |-> flag]

\* AtomicBool::swap(value, Relaxed): the old value, and the flag after it.
swap(flag, value) == [old |-> flag, new |-> value]

Listened(flag, forward, event) == [closed |-> flag, forward |-> forward, event |-> event]

\* if !inner_closed.swap(true, ..) { bubble_notifier.read().notify(event) }
on_close(r, event) == Listened(r.new, ~r.old, event)

\* The listener PeerChannel::new registers: what it leaves of the closed flag,
\* and whether it forwards the event to the channel's notifier.
listener(e, flag) ==
    IF PeerChannelEvent_from(e).kind = "Close"
    THEN on_close(swap(flag, TRUE), PeerChannelEvent_from(e))
    ELSE Listened(flag, TRUE, PeerChannelEvent_from(e))

\* PeerChannel::closed
PeerChannel_closed(flag) == flag

\* Mutant: the listener is deregistered only with the last live handle.
drop_LastHandleOnly(ls, handle, alive) ==
    IF alive = 1 THEN deregister(ls, handle) ELSE ls

\* impl Drop for PeerChannel: every handle, a clone too, deregisters the listener.
drop(ls, handle, alive) == deregister(ls, handle)

\* Mutant: the error is notified and the chain goes on as if it had succeeded.
or_else_Recovering(error) == [event |-> PeerStreamEvent("Error", NoArg), result |-> "Ok"]

\* .or_else(move |error| { notify(PeerStreamEvent::Error); Err(error) })
or_else(error) == [event |-> PeerStreamEvent("Error", NoArg), result |-> "Err"]

\* .and_then(move |result| { notify(PeerStreamEvent::Close(ClosedByRemote)); .. })
and_then == PeerStreamEvent("Close", "ClosedByRemote")

\* The Close event the connection emits when it is closed from this side.
ConnectionClosed == PeerStreamEvent("Close", "ClosedByUs")

\* No channel: the values of the channel's variables while only the accounts
\* engine runs.
NoPeer ==
    /\ stream = <<>>
    /\ pos = 1
    /\ pc = "for_each"
    /\ stream_events = <<>>
    /\ listeners = Notifier_new
    /\ closed = FALSE
    /\ channel_events = <<>>
    /\ readers = [t \in Threads |-> None]
    /\ emitted = [c \in Closers |-> FALSE]
    /\ handles = 0
    /\ dropped = FALSE
    /\ seen = "never"

(***************************************************************************)
(* The inputs: the block the caller applies and the genesis accounts.      *)
(***************************************************************************)
SeqUpTo(S, n) == UNION {[1..k -> S] : k \in 0..n}

\* Validated transactions: the sender is not the recipient.
Transactions ==
    {tx \in [sender : Addr, sender_type : AccountTypes, recipient : Addr,
             recipient_type : AccountTypes, contract_creation : BOOLEAN,
             value : 1..MaxValue] : tx.sender # tx.recipient}

Inherents == [target : Addr, pre_transactions : BOOLEAN, value : 1..MaxValue]

Block(txs, inhs, h, ts) ==
    [transactions |-> txs, inherents |-> inhs, block_height |-> h, timestamp |-> ts]

\* A block holds at most MaxOps operations.
IsBlock(txs, inhs) == Len(txs) + Len(inhs) <= MaxOps

GenesisAccounts ==
    {new_basic(0), new_basic(MaxValue), Account("Vesting", MaxValue, 0)}

Genesis == {<<<<1, a>>, <<2, b>>>> : a \in GenesisAccounts, b \in GenesisAccounts}

(***************************************************************************)
(* The state: the durable trie, the caller's write transaction, the block  *)
(* the caller applies, the receipts it keeps of the last successful commit *)
(* (with the trie before and after it), and the record of the last call.   *)
(***************************************************************************)
\* `again` marks a call that repeats an earlier one on the same trie: a commit run
\* on the trie the persisted commit started from, a preview run twice in a row.
Call(op, ok, err, pre, post, rs, log, hash, again) ==
    [op |-> op, ok |-> ok, err |-> err, pre |-> pre, post |-> post, receipts |-> rs,
     log |-> log, hash |-> hash, again |-> again]

NoCall == Call("none", TRUE, "", EmptyTrie, EmptyTrie, <<>>, <<>>, {}, FALSE)

NothingPersisted ==
    [valid |-> FALSE, receipts |-> <<>>, before |-> EmptyTrie, after |-> EmptyTrie]

Init ==
    /\ db = EmptyTrie
    /\ txn = NoTxn
    /\ \E txs \in SeqUpTo(Transactions, MaxTxs), inhs \in SeqUpTo(Inherents, MaxInherents),
          h \in Heights, ts \in Timestamps :
          IsBlock(txs, inhs) /\ block = Block(txs, inhs, h, ts)
    /\ persisted = NothingPersisted
    /\ last = NoCall
    /\ NoPeer

BeginWrite ==
    /\ ~txn.open
    /\ txn' = WriteTransaction_new(db)
    /\ UNCHANGED <<db, block, persisted, last>>
    /\ UNCHANGED peer_vars

TxnCommit ==
    /\ txn.open
    /\ db' = txn_commit(db, txn.view)
    /\ txn' = NoTxn
    /\ UNCHANGED <<block, persisted, last>>
    /\ UNCHANGED peer_vars

TxnAbort ==
    /\ txn.open
    /\ db' = txn_abort(db, txn.view)
    /\ txn' = NoTxn
    /\ UNCHANGED <<block, persisted, last>>
    /\ UNCHANGED peer_vars

InitAccounts ==
    /\ txn.open
    /\ last.op = "none"
    /\ \E g \in Genesis :
          LET t == init(txn.view, g) IN
          /\ txn' = [txn EXCEPT !.view = t]
          /\ last' = Call("init", TRUE, "", txn.view, t, <<>>, <<>>, {}, FALSE)
    /\ UNCHANGED <<db, block, persisted>>
    /\ UNCHANGED peer_vars

CommitReturns(r) ==
    /\ txn' = [txn EXCEPT !.view = r.trie]
    /\ last' = Call("commit", r.ok, r.err, txn.view, r.trie, r.receipts, r.log, {},
                    persisted.valid /\ txn.view = persisted.before)
    /\ persisted' = IF r.ok
                    THEN [valid |-> TRUE, receipts |-> r.receipts,
                          before |-> txn.view, after |-> r.trie]
                    ELSE persisted

Commit ==
    /\ txn.open
    /\ CommitReturns(commit(txn.view, block.transactions, block.inherents,
                            block.block_height, block.timestamp))
    /\ UNCHANGED <<db, block>>
    /\ UNCHANGED peer_vars

RevertReturns(r) ==
    /\ txn' = [txn EXCEPT !.view = r.trie]
    /\ last' = Call("revert", r.ok, r.err, txn.view, r.trie, <<>>, r.log, {}, FALSE)

\* The orders in which a caller may hold the receipts of a Receipts collection.
Orderings(rs) ==
    {[i \in 1..Len(rs) |-> rs[p[i]]] : p \in Permutations(1..Len(rs))}

Revert ==
    /\ txn.open
    /\ \E rs \in Orderings(persisted.receipts) :
          RevertReturns(revert(txn.view, block.transactions, block.inherents,
                               block.block_height, block.timestamp, rs))
    /\ UNCHANGED <<db, block, persisted>>
    /\ UNCHANGED peer_vars

GetRootWithReturns(r) ==
    /\ db' = r.durable
    /\ txn' = r.txn
    /\ last' = Call("get_root_with", r.ok, r.err, db, r.durable, <<>>, r.log, r.hash,
                    last.op = "get_root_with" /\ last.pre = db)

GetRootWith ==
    /\ ~txn.open
    /\ GetRootWithReturns(get_root_with(db, block.transactions, block.inherents,
                                        block.block_height, block.timestamp))
    /\ UNCHANGED <<block, persisted>>
    /\ UNCHANGED peer_vars

Next ==
    \/ BeginWrite
    \/ TxnCommit
    \/ TxnAbort
    \/ InitAccounts
    \/ Commit
    \/ Revert
    \/ GetRootWith

Spec == Init /\ [][Next]_vars

(***************************************************************************)
(* The peer channel's state machine: the state after PeerChannel::new on a *)
(* connection whose stream holds the items `stream`, then the steps of     *)
(* process_stream, of the connection closing, of the listener forwarding   *)
(* an event, and of the channel's handles being cloned, dropped and asked. *)
(***************************************************************************)
NoAccounts ==
    /\ db = EmptyTrie
    /\ txn = NoTxn
    /\ block = Block(<<>>, <<>>, 1, 0)
    /\ persisted = NothingPersisted
    /\ last = NoCall

PeerChannel_new ==
    /\ listeners = register(Notifier_new, ListenerHandle)
    /\ closed = FALSE
    /\ channel_events = <<>>
    /\ handles = 1
    /\ dropped = FALSE
    /\ seen = "never"

PeerInit ==
    /\ NoAccounts
    /\ stream \in SeqUpTo(StreamItems, MaxStream)
    /\ pos = 1
    /\ pc = "for_each"
    /\ stream_events = <<>>
    /\ readers = [t \in Threads |-> None]
    /\ emitted = [c \in Closers |-> FALSE]
    /\ PeerChannel_new

\* The listener ran on thread t and left r: the flag is set as it left it, and
\* the event it forwards is in the thread's hands until Forward.
Ran(t, r) ==
    /\ closed' = r.closed
    /\ readers' = [readers EXCEPT ![t] = IF r.forward THEN Some(r.event) ELSE None]

\* notifier.read().notify(e) on thread t: the registered listener is called.
Notify(t, e) ==
    IF ListenerHandle \in listeners THEN Ran(t, listener(e, closed))
    ELSE UNCHANGED <<closed, readers>>

\* stream.for_each(|msg| notify(PeerStreamEvent::Message(Arc::new(msg))))
ForEach ==
    /\ pc = "for_each"
    /\ readers[StreamThread] = None
    /\ pos <= Len(stream)
    /\ stream[pos] \in Messages
    /\ stream_events' = Append(stream_events, PeerStreamEvent("Message", stream[pos]))
    /\ Notify(StreamThread, PeerStreamEvent("Message", stream[pos]))
    /\ pos' = pos + 1
    /\ UNCHANGED <<stream, pc, listeners, channel_events, emitted, handles, dropped, seen>>
    /\ UNCHANGED accounts_vars

Failed_Stream(r) ==
    /\ stream_events' = Append(stream_events, r.event)
    /\ Notify(StreamThread, r.event)
    /\ pc' = IF r.result = "Err" THEN "err" ELSE "and_then"

\* The stream yields an error: for_each ends with it and or_else runs.
OrElse ==
    /\ pc = "for_each"
    /\ readers[StreamThread] = None
    /\ pos <= Len(stream)
    /\ stream[pos] = StreamFailure
    /\ Failed_Stream(or_else(stream[pos]))
    /\ pos' = pos + 1
    /\ UNCHANGED <<stream, listeners, channel_events, emitted, handles, dropped, seen>>
    /\ UNCHANGED accounts_vars

\* The stream ended, or the chain before it did not return an error: and_then runs.
AndThen ==
    /\ \/ pc = "for_each" /\ pos > Len(stream)
       \/ pc = "and_then"
    /\ readers[StreamThread] = None
    /\ stream_events' = Append(stream_events, and_then)
    /\ Notify(StreamThread, and_then)
    /\ pc' = "ok"
    /\ UNCHANGED <<stream, pos, listeners, channel_events, emitted, handles, dropped, seen>>
    /\ UNCHANGED accounts_vars

\* The connection emits a Close event of its own on another thread.
ConnectionClose(c) ==
    /\ ~emitted[c]
    /\ readers[c] = None
    /\ emitted' = [emitted EXCEPT ![c] = TRUE]
    /\ Notify(c, ConnectionClosed)
    /\ UNCHANGED <<stream, pos, pc, stream_events, listeners, channel_events, handles,
                   dropped, seen>>
    /\ UNCHANGED accounts_vars

\* bubble_notifier.read().notify(event) on thread t, which ends the listener.
Forward(t) ==
    /\ readers[t] # None
    /\ channel_events' = Append(channel_events, readers[t][1])
    /\ readers' = [readers EXCEPT ![t] = None]
    /\ UNCHANGED <<stream, pos, pc, stream_events, listeners, closed, emitted, handles,
                   dropped, seen>>
    /\ UNCHANGED accounts_vars

\* #[derive(Clone)]: one more handle with the same listener handle and flag.
Clone ==
    /\ handles >= 1
    /\ handles < MaxHandles
    /\ handles' = handles + 1
    /\ UNCHANGED <<stream, pos, pc, stream_events, listeners, closed, channel_events,
                   readers, emitted, dropped, seen>>
    /\ UNCHANGED accounts_vars

\* A handle is dropped: stream_notifier.write() waits for the threads inside
\* notify, then the listener is deregistered.
Drop ==
    /\ handles >= 1
    /\ \A t \in Threads : readers[t] = None
    /\ listeners' = drop(listeners, ListenerHandle, handles)
    /\ handles' = handles - 1
    /\ dropped' = TRUE
    /\ UNCHANGED <<stream, pos, pc, stream_events, closed, channel_events, readers,
                   emitted, seen>>
    /\ UNCHANGED accounts_vars

\* closed() is called on a live handle.
CallClosed ==
    /\ handles >= 1
    /\ seen' = IF PeerChannel_closed(closed) THEN "true" ELSE "false"
    /\ UNCHANGED <<stream, pos, pc, stream_events, listeners, closed, channel_events,
                   readers, emitted, handles, dropped>>
    /\ UNCHANGED accounts_vars

PeerNext ==
    \/ ForEach
    \/ OrElse
    \/ AndThen
    \/ \E c \in Closers : ConnectionClose(c)
    \/ \E t \in Threads : Forward(t)
    \/ Clone
    \/ Drop
    \/ CallClosed

PeerSpec == PeerInit /\ [][PeerNext]_vars

(***************************************************************************)
(* Helpers of the properties below.                                        *)
(***************************************************************************)
EngineRan == last.op \in {"commit", "revert", "get_root_with"}

CommitRan == last.op \in {"commit", "get_root_with"}

StepEntries(log, step) == SelectSeq(log, LAMBDA e : e.step = step)

Flagged(txs) == SelectSeq(txs, LAMBDA tx : tx.contract_creation)

\* The operations a step has to handle for the block.
StepSize(step) ==
    CASE step \in {"senders", "recipients"} -> Len(block.transactions)
      [] step = "contracts" -> Len(Flagged(block.transactions))
      [] step = "pre_inherents" -> Len(filter_inherents(block.inherents, TRUE))
      [] step = "post_inherents" -> Len(filter_inherents(block.inherents, FALSE))

Steps == {"pre_inherents", "senders", "recipients", "contracts", "post_inherents"}

\* The position of a step in commit, as the specification numbers them.
CommitRank ==
    [step \in Steps |->
        CASE step = "pre_inherents" -> 1
          [] step = "senders" -> 2
          [] step = "recipients" -> 3
          [] step = "contracts" -> 4
          [] step = "post_inherents" -> 5]

\* The log runs through the steps by rising rank, each step complete before
\* an operation of a later step is handled.
InStepOrder(log, rank) ==
    /\ \A i \in 1..Len(log) : \A j \in 1..Len(log) :
          i < j => rank[log[i].step] <= rank[log[j].step]
    /\ \A i \in 1..Len(log) : \A s \in Steps :
          rank[s] < rank[log[i].step] => Len(StepEntries(log, s)) = StepSize(s)

\* Every operation of the block was handled, each inherent in the one step
\* its pre_transactions flag selects.
AllHandled(log) ==
    /\ \A s \in Steps : Len(StepEntries(log, s)) = StepSize(s)
    /\ \A pre \in BOOLEAN :
          LET es == StepEntries(log, IF pre THEN "pre_inherents" ELSE "post_inherents")
              is == filter_inherents(block.inherents, pre)
          IN \A k \in 1..Len(es) : es[k].address = is[k].target /\ es[k].index = k - 1
    /\ Len(StepEntries(log, "pre_inherents")) + Len(StepEntries(log, "post_inherents"))
          = Len(block.inherents)

(***************************************************************************)
(* C1: a successful commit followed by revert with the same block and the  *)
(* receipts commit returned succeeds and restores every account, hence the *)
(* root hash, to what it was before commit.                                *)
(***************************************************************************)
C1_RevertRestores ==
    (last.op = "revert" /\ persisted.valid /\ last.pre = persisted.after)
        => /\ last.ok
           /\ last.post = persisted.before
           /\ root_hash(last.post) = root_hash(persisted.before)

(***************************************************************************)
(* C2: commit handles the block in the order pre-transaction inherents,    *)
(* senders, recipients, contract creation, post-transaction inherents; a   *)
(* step is finished for the whole block before the next starts, and every  *)
(* inherent is handled in exactly one of the two inherent steps.           *)
(***************************************************************************)
C2_CommitOrder ==
    CommitRan => /\ InStepOrder(last.log, CommitRank)
                 /\ last.ok => AllHandled(last.log)

C2_Witness ==
    /\ last.op = "commit"
    /\ last.ok
    /\ \A s \in Steps : Len(StepEntries(last.log, s)) > 0

(***************************************************************************)
(* C3: revert handles the block in the reverse step order: post-transaction*)
(* inherents, contract reversal, recipients, senders, pre-transaction      *)
(* inherents, each step finished for the whole block before the next.      *)
(***************************************************************************)
RevertRank == [step \in Steps |-> 6 - CommitRank[step]]

C3_RevertOrder ==
    last.op = "revert" => /\ InStepOrder(last.log, RevertRank)
                          /\ last.ok => AllHandled(last.log)

C3_Witness ==
    /\ last.op = "revert"
    /\ last.ok
    /\ \A s \in Steps : Len(StepEntries(last.log, s)) > 0

(***************************************************************************)
(* C4: in commit, after process_transaction or process_inherent handled an *)
(* operation successfully, the account the trie holds at its address is    *)
(* the account as the operation left it, never the copy read before it.    *)
(***************************************************************************)
C4_WriteBackKeepsResult ==
    CommitRan =>
        \A i \in 1..Len(last.log) :
            LET e == last.log[i] IN
            (e.step # "contracts" /\ e.ok) => (e.written = e.result /\ e.after = e.result)

(***************************************************************************)
(* C5: when some transaction's claimed sender_type differs from the type   *)
(* of the account stored at its sender address, commit returns             *)
(* TypeMismatch and leaves every account visible through the write         *)
(* transaction as it was before the call.                                  *)
(***************************************************************************)
MismatchedSenders(t) ==
    {k \in 1..Len(block.transactions) :
        block.transactions[k].sender_type # tree_get(t, block.transactions[k].sender).type}

Least(S) == CHOOSE k \in S : \A j \in S : k <= j

C5_TypeMismatchAlways ==
    (last.op = "commit" /\ MismatchedSenders(last.pre) # {})
        => (~last.ok /\ last.err = "TypeMismatch" /\ last.post = last.pre)

\* Amended: commit returns an error, which is TypeMismatch unless an inherent
\* or a transaction handled before the first offending transaction fails
\* first, and every account is as it was before the call.
C5_TypeMismatchUnlessEarlierError ==
    (last.op = "commit" /\ MismatchedSenders(last.pre) # {})
        => LET k == Least(MismatchedSenders(last.pre))
               f == last.log[Len(last.log)]
           IN /\ ~last.ok
              /\ last.post = last.pre
              /\ Len(last.log) > 0
              /\ \/ f.step = "senders" /\ f.index = k - 1 /\ last.err = "TypeMismatch"
                 \/ f.step = "senders" /\ f.index < k - 1 /\ last.err # "TypeMismatch"
                 \/ f.step = "pre_inherents" /\ last.err # "TypeMismatch"

C5_Witness ==
    /\ last.op = "commit"
    /\ MismatchedSenders(last.pre) # {}
    /\ last.err = "TypeMismatch"
    /\ Len(StepEntries(last.log, "pre_inherents")) > 0
    /\ Len(StepEntries(last.log, "senders")) = 2

(***************************************************************************)
(* C6: the first error of a type check, an account operation or a contract *)
(* construction ends commit or revert at once with that error: nothing is  *)
(* handled after it, and commit returns no receipts.                       *)
(***************************************************************************)
C6_FirstErrorEndsCall ==
    EngineRan =>
        /\ \A i \in 1..Len(last.log) :
              ~last.log[i].ok => (i = Len(last.log) /\ ~last.ok /\ last.err = last.log[i].err)
        /\ ~last.ok => (/\ Len(last.log) > 0
                        /\ ~last.log[Len(last.log)].ok
                        /\ last.receipts = <<>>)

C6_Witness ==
    /\ last.op = "commit"
    /\ ~last.ok
    /\ Len(block.transactions) = 2
    /\ Len(block.inherents) = 1
    /\ Len(last.log) = 1
    /\ last.log[1].step = "senders"

(***************************************************************************)
(* C7: process_transaction and process_inherent write the account back     *)
(* only after the operation returned successfully: a failed type check or  *)
(* a failed operation is followed by no put_batch for that address.        *)
(***************************************************************************)
C7_NoPutOnError ==
    EngineRan =>
        \A i \in 1..Len(last.log) :
            LET e == last.log[i] IN
            e.step # "contracts" =>
                /\ ~e.ok => (~e.put /\ e.after = e.stored)
                /\ e.put => (e.ok /\ e.invoked)

C7_Witness ==
    /\ last.op = "revert"
    /\ \E i \in 1..Len(last.log) :
          /\ last.log[i].step \in {"senders", "recipients"}
          /\ last.log[i].invoked
          /\ ~last.log[i].ok

(***************************************************************************)
(* C8: get_root_with leaves the durable trie as it was, so get and         *)
(* get_root on a fresh read transaction give what they gave before, and a  *)
(* second call with the same inputs returns the hash of the first.         *)
(***************************************************************************)
C8_PreviewKeepsDurable ==
    /\ [](last.op = "get_root_with" =>
            /\ \A a \in Addr : get(last.post, a, None) = get(last.pre, a, None)
            /\ get_root(last.post, None) = get_root(last.pre, None))
    /\ [][(last.op = "get_root_with" /\ last'.op = "get_root_with" /\ last'.again)
            => (last'.ok = last.ok /\ last'.hash = last.hash)]_vars

C8_Witness ==
    /\ last.op = "get_root_with"
    /\ last.ok
    /\ last.again
    /\ last.hash # get_root(db, None)

C10_SenderPhaseChecked ==
    EngineRan =>
        LET es == StepEntries(last.log, "senders") IN
        \A k \in 1..Len(es) :
            LET e == es[k]
                tx == block.transactions[k]
            IN /\ e.index = k - 1
               /\ e.address = tx.sender
               /\ e.invoked => e.stored.type = tx.sender_type
               /\ e.stored.type # tx.sender_type
                     => /\ ~e.invoked /\ ~e.ok /\ ~e.put
                        /\ e.err = "TypeMismatch"
                        /\ e.after = e.stored
                        /\ k = Len(es)
                        /\ ~last.ok /\ last.err = "TypeMismatch"

C10_Witness ==
    /\ last.op = "revert"
    /\ last.err = "TypeMismatch"
    /\ Len(StepEntries(last.log, "senders")) = 2
    /\ StepEntries(last.log, "senders")[1].ok

TaggedReceipts(rs, kind, index, flag) ==
    {j \in 1..Len(rs) : rs[j].kind = kind /\ rs[j].index = index /\ rs[j].flag = flag}

SideStep(sender) == IF sender THEN "senders" ELSE "recipients"

C12_TransactionReceipts ==
    (last.op = "commit" /\ last.ok) =>
        \A sender \in BOOLEAN : \A k \in 1..Len(block.transactions) :
            LET e == StepEntries(last.log, SideStep(sender))[k]
                tagged == TaggedReceipts(last.receipts, "Transaction", k - 1, sender)
            IN /\ e.receipt = ReceiptOf(e.stored)
               /\ e.receipt = None => tagged = {}
               /\ e.receipt # None
                     => /\ Cardinality(tagged) = 1
                        /\ \A j \in tagged : last.receipts[j].data = e.receipt[1]

C12_Witness ==
    /\ last.op = "commit"
    /\ last.ok
    /\ Len(block.transactions) = 2
    /\ TaggedReceipts(last.receipts, "Transaction", 0, TRUE) = {}
    /\ TaggedReceipts(last.receipts, "Transaction", 1, TRUE) # {}
    /\ TaggedReceipts(last.receipts, "Transaction", 0, FALSE) # {}
    /\ TaggedReceipts(last.receipts, "Transaction", 1, FALSE) = {}

(***************************************************************************)
(* C13: in revert, the operation for transaction i in a role, and the one  *)
(* for the inherent at position i of a phase, is given the data of the     *)
(* receipt tagged with that index and that role or phase when the          *)
(* collection holds one, and None when it holds none: never a receipt of   *)
(* another index, role or phase.                                           *)
(***************************************************************************)
StepKind(step) == IF step \in {"senders", "recipients"} THEN "Transaction" ELSE "Inherent"

\* The `sender` flag of a transaction step, the `pre_transactions` flag of an
\* inherent step.
StepFlag(step) == step \in {"senders", "pre_inherents"}

C13_ReceiptRouting ==
    last.op = "revert" =>
        \A i \in 1..Len(last.log) :
            LET e == last.log[i]
                tagged == TaggedReceipts(persisted.receipts, StepKind(e.step), e.index,
                                         StepFlag(e.step))
            IN e.step # "contracts" =>
                  /\ tagged = {} => e.given = None
                  /\ tagged # {} => \E j \in tagged : e.given = Some(persisted.receipts[j].data)

\* Two transactions of which only the second produced a sender receipt and only
\* the first a recipient receipt, reverted with those two receipts.
C13_Witness ==
    /\ last.op = "revert"
    /\ last.ok
    /\ last.pre = persisted.after
    /\ Len(persisted.receipts) = 2
    /\ Len(StepEntries(last.log, "senders")) = 2
    /\ StepEntries(last.log, "senders")[1].given = None
    /\ StepEntries(last.log, "senders")[2].given # None
    /\ StepEntries(last.log, "recipients")[1].given # None
    /\ StepEntries(last.log, "recipients")[2].given = None

(***************************************************************************)
(* C14: when revert is called with the receipts commit returned for the    *)
(* same block, on the trie commit left, every receipt is handed to exactly *)
(* one revert operation, the one of its index and role or phase: none is   *)
(* handed to two operations and none is left unconsumed.                   *)
(***************************************************************************)
\* The operations of the call that were handed the receipt at position j.
HandedTo(log, rs, j) ==
    {i \in 1..Len(log) :
        /\ log[i].step # "contracts"
        /\ log[i].invoked
        /\ log[i].given = Some(rs[j].data)
        /\ StepKind(log[i].step) = rs[j].kind
        /\ StepFlag(log[i].step) = rs[j].flag
        /\ log[i].index = rs[j].index}

C14_ReceiptsConsumedOnce ==
    (last.op = "revert" /\ persisted.valid /\ last.pre = persisted.after)
        => \A j \in 1..Len(persisted.receipts) :
              Cardinality(HandedTo(last.log, persisted.receipts, j)) = 1

(***************************************************************************)
(* C15: after step 4 of commit the recipient address of every transaction  *)
(* flagged CONTRACT_CREATION holds the account Account::new_contract       *)
(* builds, of type transaction.recipient_type, from the balance found at   *)
(* that address after recipient processing; the step touches no other      *)
(* address and adds no receipt to commit's result.                         *)
(***************************************************************************)
\* commit of the block on trie t, run through its first n steps.
CommitUpTo(n, t) ==
    commit_run(SubSeq(CommitOrder, 1, n), 1, block.transactions, block.inherents,
               block.block_height, block.timestamp,
               CallResult(TRUE, "", t, NewReceipts, <<>>))

FlaggedRecipients ==
    {block.transactions[k].recipient :
        k \in {j \in 1..Len(block.transactions) : block.transactions[j].contract_creation}}

RevertsCreation ==
    /\ last.op = "revert"
    /\ persisted.valid
    /\ last.pre = persisted.after
    /\ filter_inherents(block.inherents, FALSE) = <<>>

C17_RevertContractChecked ==
    last.op = "revert" =>
        LET es == StepEntries(last.log, "contracts") IN
        \A i \in 1..Len(es) :
            LET e == es[i]
                tx == block.transactions[e.index + 1]
            IN /\ tx.contract_creation
               /\ e.address = tx.recipient
               /\ e.stored.type # tx.recipient_type
                     => /\ ~e.ok /\ ~e.put
                        /\ e.err = "TypeMismatch"
                        /\ e.after = e.stored
                        /\ i = Len(es)
                        /\ ~last.ok /\ last.err = "TypeMismatch"
                        /\ tree_get(last.post, e.address) = e.stored
               /\ e.stored.type = tx.recipient_type
                     => /\ e.ok /\ e.put
                        /\ e.written = new_basic(e.stored.balance)
                        /\ e.after = new_basic(e.stored.balance)

\* revert run on a trie other than the one commit left: the first flagged
\* recipient holds a contract of the claimed type, the second does not.
C17_Witness ==
    /\ last.op = "revert"
    /\ persisted.valid
    /\ last.pre # persisted.after
    /\ last.err = "TypeMismatch"
    /\ Len(StepEntries(last.log, "contracts")) = 2
    /\ StepEntries(last.log, "contracts")[1].ok
    /\ StepEntries(last.log, "contracts")[1].stored.balance = MaxValue
    /\ StepEntries(last.log, "contracts")[2].address # StepEntries(last.log, "contracts")[1].address

(***************************************************************************)
(* C18: within one commit a pre-transactions inherent crediting address X  *)
(* is applied before the sender side of every transaction, so a            *)
(* transaction from X whose value exceeds X's prior balance but not the    *)
(* prior balance plus the credit passes its balance check; the same        *)
(* inherent marked post-transactions is applied after all transactions,    *)
(* so that transaction fails its balance check and commit returns an error.*)
(***************************************************************************)
\* The block is one inherent crediting X and one transaction from X that the
\* prior balance of X does not cover and the prior balance plus the credit does.
RewardThenSpend(t, pre) ==
    /\ Len(block.inherents) = 1
    /\ Len(block.transactions) = 1
    /\ block.inherents[1].pre_transactions = pre
    /\ block.inherents[1].target = block.transactions[1].sender
    /\ tree_get(t, block.transactions[1].sender).type = block.transactions[1].sender_type
    /\ tree_get(t, block.transactions[1].sender).balance < block.transactions[1].value
    /\ tree_get(t, block.transactions[1].sender).balance + block.inherents[1].value
          >= block.transactions[1].value

C18_PreInherentVisible ==
    /\ (last.op = "commit" /\ RewardThenSpend(last.pre, TRUE))
          => /\ Len(StepEntries(last.log, "senders")) = 1
             /\ StepEntries(last.log, "senders")[1].ok
    /\ (last.op = "commit" /\ RewardThenSpend(last.pre, FALSE))
          => /\ ~last.ok
             /\ Len(StepEntries(last.log, "senders")) = 1
             /\ StepEntries(last.log, "senders")[1].err = "InsufficientFunds"
             /\ StepEntries(last.log, "post_inherents") = <<>>

(***************************************************************************)
(* C19: with basic accounts A of balance a and B of balance 0 and a block  *)
(* holding the single transaction from A to B of value v <= a and no       *)
(* inherents (a = 100, v = 40 in the specification), commit yields         *)
(* A = a - v and B = v; revert with the returned receipts then yields      *)
(* A = a and B = 0 and the root hash of before commit.                     *)
(***************************************************************************)
\* The block is a single plain transfer between basic accounts that trie t
\* covers, to an account of balance 0.
SimpleTransfer(t) ==
    /\ block.inherents = <<>>
    /\ Len(block.transactions) = 1
    /\ ~block.transactions[1].contract_creation
    /\ block.transactions[1].sender_type = "Basic"
    /\ block.transactions[1].recipient_type = "Basic"
    /\ tree_get(t, block.transactions[1].sender).type = "Basic"
    /\ tree_get(t, block.transactions[1].sender).balance >= block.transactions[1].value
    /\ tree_get(t, block.transactions[1].recipient) = new_basic(0)

C19_TransferExample ==
    /\ (last.op = "commit" /\ SimpleTransfer(last.pre))
          => LET tx == block.transactions[1] IN
             /\ last.ok
             /\ tree_get(last.post, tx.sender)
                   = new_basic(tree_get(last.pre, tx.sender).balance - tx.value)
             /\ tree_get(last.post, tx.recipient) = new_basic(tx.value)
    /\ (last.op = "revert" /\ persisted.valid /\ last.pre = persisted.after
            /\ SimpleTransfer(persisted.before))
          => /\ last.ok
             /\ last.post = persisted.before
             /\ root_hash(last.post) = root_hash(persisted.before)

(***************************************************************************)
(* C20: when the commit inside get_root_with returns an error,             *)
(* get_root_with returns that error, and its write transaction is rolled   *)
(* back and released on that path too: nothing of the partial application  *)
(* reaches the durable trie and a write transaction can be opened after it.*)
(***************************************************************************)
C20_PreviewErrorReleases ==
    /\ [](last.op = "get_root_with" /\ ~last.ok
            => /\ Len(last.log) > 0
               /\ last.err = last.log[Len(last.log)].err
               /\ last.post = last.pre
               /\ \A a \in Addr : get(last.post, a, None) = get(last.pre, a, None))
    /\ [][(~txn.open /\ last' # last /\ last'.op = "get_root_with" /\ ~last'.ok)
            => (db' = db /\ ~txn'.open /\ WriteTransaction_new(db').open)]_vars

\* The failed preview had created a contract in its write transaction before
\* a later operation returned the error.
C20_Witness ==
    /\ last.op = "get_root_with"
    /\ ~last.ok
    /\ \E i \in 1..Len(last.log) :
          /\ last.log[i].step = "contracts"
          /\ last.log[i].ok
          /\ last.log[i].after # last.log[i].stored
    /\ ~txn.open
    /\ db = last.pre

(***************************************************************************)
(* C21: the result of revert does not depend on the order of the receipts  *)
(* in the collection: for receipts with pairwise distinct kind, role or    *)
(* phase, and index, every order yields the same trie and the same result, *)
(* and each receipt sits in the map of its own role or phase under its     *)
(* index, not overwritten by a receipt of equal index and another role or  *)
(* phase.                                                                  *)
(***************************************************************************)
DistinctTags(rs) ==
    \A i \in 1..Len(rs) : \A j \in 1..Len(rs) :
        (rs[i].kind = rs[j].kind /\ rs[i].flag = rs[j].flag /\ rs[i].index = rs[j].index)
            => i = j

\* The map prepare_receipts files a receipt in.
MapOf(r) ==
    IF r.kind = "Transaction" THEN (IF r.flag THEN "sender" ELSE "recipient")
    ELSE (IF r.flag THEN "pre_tx_inherent" ELSE "post_tx_inherent")

MapSizes(maps) ==
    Cardinality(DOMAIN maps.sender) + Cardinality(DOMAIN maps.recipient)
        + Cardinality(DOMAIN maps.pre_tx_inherent)
        + Cardinality(DOMAIN maps.post_tx_inherent)

C21_ReceiptOrderIrrelevant ==
    /\ [](DistinctTags(persisted.receipts) =>
            \A rs \in Orderings(persisted.receipts) :
                /\ MapSizes(prepare_receipts(rs)) = Len(rs)
                /\ \A j \in 1..Len(rs) :
                      /\ rs[j].index \in DOMAIN prepare_receipts(rs)[MapOf(rs[j])]
                      /\ prepare_receipts(rs)[MapOf(rs[j])][rs[j].index] = rs[j].data)
    /\ [][(txn.open /\ txn'.open /\ last'.op = "revert" /\ DistinctTags(persisted.receipts)
             /\ (last' # last \/ txn' # txn))
            => LET r == revert(txn.view, block.transactions, block.inherents,
                               block.block_height, block.timestamp, persisted.receipts)
               IN /\ last'.post = r.trie
                  /\ last'.ok = r.ok
                  /\ last'.err = r.err]_vars

\* A successful revert that was handed a sender and a recipient receipt of
\* equal index, both of which reached their operation.
C21_Witness ==
    /\ last.op = "revert"
    /\ last.ok
    /\ \E i \in 1..Len(persisted.receipts) : \E j \in 1..Len(persisted.receipts) :
          /\ persisted.receipts[i].kind = "Transaction"
          /\ persisted.receipts[j].kind = "Transaction"
          /\ persisted.receipts[i].index = persisted.receipts[j].index
          /\ persisted.receipts[i].flag # persisted.receipts[j].flag
          /\ HandedTo(last.log, persisted.receipts, i) # {}
          /\ HandedTo(last.log, persisted.receipts, j) # {}

(***************************************************************************)
(* C22: the index of an inherent receipt is the inherent's 0-based         *)
(* position among the inherents of its own phase, not its position in the  *)
(* full sequence, and its pre_transactions flag is the inherent's; commit  *)
(* and revert enumerate the same subsequences, so revert looks a receipt   *)
(* up at the index commit gave it.                                         *)
(***************************************************************************)
\* The 0-based position of the inherent at position k of the block among the
\* inherents of its own phase.
PhaseIndex(k) ==
    Cardinality({j \in 1..(k - 1) :
        block.inherents[j].pre_transactions = block.inherents[k].pre_transactions})

\* The position in the block of the inherent an entry of an inherent step is for.
InherentAt(step, index) ==
    {k \in 1..Len(block.inherents) :
        /\ block.inherents[k].pre_transactions = StepFlag(step)
        /\ PhaseIndex(k) = index}

C22_InherentIndexWithinPhase ==
    EngineRan =>
        /\ \A s \in {"pre_inherents", "post_inherents"} :
              LET es == StepEntries(last.log, s) IN
              \A m \in 1..Len(es) :
                  /\ es[m].index = m - 1
                  /\ Cardinality(InherentAt(s, es[m].index)) = 1
                  /\ \A k \in InherentAt(s, es[m].index) :
                        es[m].address = block.inherents[k].target
                  /\ last.op = "revert" =>
                        LET tagged == TaggedReceipts(persisted.receipts, "Inherent",
                                                     es[m].index, StepFlag(s))
                        IN /\ tagged = {} => es[m].given = None
                           /\ \A j \in tagged :
                                 es[m].given = Some(persisted.receipts[j].data)
        /\ (last.op = "commit" /\ last.ok) =>
              \A j \in 1..Len(last.receipts) :
                  LET r == last.receipts[j] IN
                  r.kind = "Inherent" =>
                      LET es == StepEntries(last.log,
                                    IF r.flag THEN "pre_inherents" ELSE "post_inherents")
                      IN /\ r.index < Len(es)
                         /\ es[r.index + 1].receipt = Some(r.data)
                         /\ \E k \in 1..Len(block.inherents) :
                               /\ block.inherents[k].pre_transactions = r.flag
                               /\ PhaseIndex(k) = r.index
                               /\ block.inherents[k].target = es[r.index + 1].address

\* A post-transactions inherent followed by a pre-transactions one: the second
\* inherent of the block has index 0, and revert handed each its receipt.
C22_Witness ==
    /\ last.op = "revert"
    /\ last.ok
    /\ Len(block.inherents) = 2
    /\ ~block.inherents[1].pre_transactions
    /\ block.inherents[2].pre_transactions
    /\ Len(StepEntries(last.log, "pre_inherents")) = 1
    /\ StepEntries(last.log, "pre_inherents")[1].index = 0
    /\ StepEntries(last.log, "pre_inherents")[1].given # None
    /\ StepEntries(last.log, "post_inherents")[1].given # None
    /\ TaggedReceipts(persisted.receipts, "Inherent", 1, TRUE) = {}

(***************************************************************************)
(* C23: commit runs the sender phase for all transactions before the       *)
(* recipient phase for any: what a transaction of the block credits to an  *)
(* address is not available to the sender-side balance check of any        *)
(* transaction of the block, and the recipient phase reads every account   *)
(* with all sender-side deductions of the block applied.                   *)
(***************************************************************************)
\* What the first k transactions of the block take from address a.
RECURSIVE SentBy(_, _)
SentBy(a, k) ==
    IF k = 0 THEN 0
    ELSE SentBy(a, k - 1)
            + (IF block.transactions[k].sender = a THEN block.transactions[k].value ELSE 0)

C23_SendersBeforeRecipients ==
    (last.op = "commit" /\ block.inherents = <<>>) =>
        /\ \A i \in 1..Len(last.log) : \A j \in 1..Len(last.log) :
              (last.log[i].step = "senders" /\ last.log[j].step = "recipients") => i < j
        /\ LET es == StepEntries(last.log, "senders") IN
           \A k \in 1..Len(es) :
               es[k].stored.balance <= tree_get(last.pre, es[k].address).balance
        /\ LET es == StepEntries(last.log, "recipients") IN
           Len(es) > 0 =>
               es[1].stored.balance
                   = tree_get(last.pre, es[1].address).balance
                        - SentBy(es[1].address, Len(block.transactions))

(***************************************************************************)
(* C24: a contract created by a CONTRACT_CREATION transaction is installed *)
(* only after the recipient phase has finished for the whole block: a      *)
(* transaction without the flag that addresses the same recipient with the *)
(* contract's type as recipient_type is checked against the type of the    *)
(* account stored before the creation and fails with TypeMismatch,         *)
(* wherever it sits in the sequence.  (When an operation handled before it *)
(* fails, commit ends there and the transaction is not reached.)           *)
(***************************************************************************)
\* The unflagged transactions of the block that address, with the contract's
\* type, a recipient that a flagged transaction of the block creates and that
\* trie t holds with another type.
TooEarlyForContract(t) ==
    {u \in 1..Len(block.transactions) :
        /\ ~block.transactions[u].contract_creation
        /\ tree_get(t, block.transactions[u].recipient).type
              # block.transactions[u].recipient_type
        /\ \E f \in 1..Len(block.transactions) :
              /\ block.transactions[f].contract_creation
              /\ block.transactions[f].recipient = block.transactions[u].recipient
              /\ block.transactions[f].recipient_type = block.transactions[u].recipient_type}

PositionsKeepIndex == \A p \in 0..(U16 - 1) : AsU16(p) = p

\* The truncation itself: position 2^16 + p has the index of position p.
PositionsWrap == \A p \in {0, 1, U16 - 1} : AsU16(U16 + p) = p

Closes(events) == {i \in 1..Len(events) : events[i].kind = "Close"}

\* The threads whose listener has set the flag and has yet to forward its Close.
ForwardingClose == {t \in Threads : readers[t] # None /\ readers[t][1].kind = "Close"}

C26_CloseForwardedOnce ==
    /\ [](/\ Cardinality(Closes(channel_events)) + Cardinality(ForwardingClose) <= 1
          /\ PeerChannel_closed(closed)
                <=> Cardinality(Closes(channel_events)) + Cardinality(ForwardingClose) = 1
          /\ seen = "true" => PeerChannel_closed(closed))
    /\ [][PeerChannel_closed(closed) => PeerChannel_closed(closed')]_vars
    /\ [][seen = "true" => seen' = "true"]_vars

\* The stream ended and the connection was closed on both other threads while
\* the listener was registered: three Close events, one of them forwarded.
C26_Witness ==
    /\ pc = "ok"
    /\ \A c \in Closers : emitted[c]
    /\ ~dropped
    /\ \A t \in Threads : readers[t] = None
    /\ Cardinality(Closes(channel_events)) = 1
    /\ seen = "true"

(***************************************************************************)
(* C27: process_stream notifies one Message event per message of the       *)
(* stream, in stream order, and then exactly one terminal event:           *)
(* Close(ClosedByRemote) when the stream ends without error, Error when    *)
(* the stream fails; after a stream error no Close event is notified, and  *)
(* no Message event after the terminal event.                              *)
(***************************************************************************)
\* The position of the first error of the stream, Len(stream) + 1 if it has none.
FirstFailure ==
    Least({i \in 1..(Len(stream) + 1) : i = Len(stream) + 1 \/ stream[i] = StreamFailure})

\* The messages the stream yields before it fails or ends, up to position n.
MessagesBefore(n) ==
    [i \in 1..(IF n < FirstFailure THEN n ELSE FirstFailure - 1) |->
        PeerStreamEvent("Message", stream[i])]

Terminated == pc \in {"ok", "err"}

C27_StreamEventsThenTerminal ==
    /\ [](/\ ~Terminated => stream_events = MessagesBefore(pos - 1)
          /\ pc = "ok" =>
                /\ FirstFailure = Len(stream) + 1
                /\ stream_events
                      = MessagesBefore(Len(stream))
                           \o <<PeerStreamEvent("Close", "ClosedByRemote")>>
          /\ pc = "err" =>
                /\ FirstFailure <= Len(stream)
                /\ stream_events
                      = MessagesBefore(Len(stream)) \o <<PeerStreamEvent("Error", NoArg)>>)
    /\ [][Terminated => (Terminated' /\ stream_events' = stream_events)]_vars

\* A message was notified and then the stream failed with a third item left
\* in it: the Error event is the last one, and both events were forwarded.
C27_Witness ==
    /\ pc = "err"
    /\ Len(stream) = 3
    /\ FirstFailure = 2
    /\ Len(stream_events) = 2
    /\ stream_events[1].kind = "Message"
    /\ stream_events[2].kind = "Error"
    /\ Len(channel_events) = 2

(***************************************************************************)
(* C28: dropping any PeerChannel handle, a clone too, deregisters the one  *)
(* listener PeerChannel::new registered on the connection's notifier: from *)
(* then on no stream event is forwarded to the channel's notifier, even    *)
(* while other clones of the channel are alive.                            *)
(***************************************************************************)
C28_DropDeregistersForAll ==
    /\ [](dropped => (ListenerHandle \notin listeners /\ \A t \in Threads : readers[t] = None))
    /\ [][dropped => (channel_events' = channel_events /\ closed' = closed)]_vars

\* A clone was dropped while another handle lives; the stream then yielded a
\* message and ended, and neither event reached the channel's notifier.
C28_Witness ==
    /\ dropped
    /\ handles >= 1
    /\ pc = "ok"
    /\ Len(stream_events) = 2
    /\ channel_events = <<>>
    /\ ~closed
    /\ seen = "false"

====
